---- MODULE Spec2Model ----
(***************************************************************************)
(* Model of src/script.py: the live-reload console.                        *)
(*                                                                         *)
(* One process (the interpreter running interact) and its environment:     *)
(* the user saving the watched file and typing on the terminal.  The       *)
(* process is single threaded; its only suspension point is the select()   *)
(* of watcher_read.  The environment acts at any time while the process    *)
(* is alive.                                                               *)
(*                                                                         *)
(* Environment facts the model relies on (they are not code of script.py): *)
(*  - inotify queues one struct inotify_event (16 bytes when the event     *)
(*    carries no name) per notification; FIONREAD reports the number of    *)
(*    queued bytes; read(2) returns whole events only, fails with EINVAL   *)
(*    when the buffer cannot hold the next event;                          *)
(*  - fcntl.ioctl with a mutable buffer copies back len(buffer) bytes of   *)
(*    the result, here 1 byte: the low byte of the count;                  *)
(*  - pyinotify's WatchManager.add_watch has quiet=True by default: a path *)
(*    that cannot be watched is logged, no exception is raised;            *)
(*  - sys.exit() with no argument raises SystemExit with args == ();       *)
(*  - the terminal is in canonical mode: only complete lines (or           *)
(*    end-of-input) make the input descriptor readable.                    *)
(***************************************************************************)
EXTENDS Integers, Sequences, FiniteSets, TLC

\* ------------------------------------------------------------- bounds
\* Most events that may be queued on the watcher at once.
MaxPending == 17
\* Most complete input lines waiting on the terminal at once.
MaxLines == 1
\* Distinct values the script may bind x to (versions of the file).
MaxVal == 2

\* --------------------------------------------------- program constants
\* sizeof(struct inotify_event) for an event with no name.
EventSize == 16
\* Values of the one-byte FIONREAD buffer, bytearray([0]).
ByteRange == 256

VARIABLES
    pc,        \* position of the process
    watcher,   \* "none" | "open" | "closed": the WatchManager of open_watcher
    watched,   \* whether add_watch registered a watch on the path
    pending,   \* events queued on the inotify descriptor
    lines,     \* complete lines waiting on stdin
    eof,       \* end-of-input signalled on stdin
    partial,   \* characters typed with no line terminator yet
    file,      \* the watched script as it is on disk
    loaded,    \* the script as the latest run_path read it
    ns,        \* locals of the current console (the Namespace)
    fresh,     \* the current console has returned no line yet
    reports,   \* print_error calls of the latest get_console
    lastOut,   \* latest thing written to stream
    closes,    \* calls of wm.close()
    status,    \* exit status of the process, -1 while it runs
    done,      \* input() raised EOFError
    woken,     \* a change event arrived while select() was blocked
    leftover,  \* events the latest drain left on the queue
    console,   \* "none" | "startup" | "reloaded": the console interact holds
    prevNs,    \* locals of the console the latest abort discarded
    late,      \* a queued event arrived while the process was not in select()
    line,      \* the latest line the current console returned: its kind
    stale,     \* queued lines typed after an abort, before the new prompt
    opens,     \* watch managers open_watcher has made
    aborted,   \* the Console object interact holds was aborted
    dirty,     \* the file was saved since run_path last read it
    unanswered, \* the latest drain read an event that no re-run has answered yet
    spurious   \* a re-run began with no drained event behind it

vars == <<pc, watcher, watched, pending, lines, eof, partial, file, loaded, ns,
          fresh, reports, lastOut, closes, status, done, woken, leftover,
          console, prevNs,
          late,
          line,
          stale,
          opens,
          aborted,
          dirty,
          unanswered,
          spurious>>

\* The terminal.
stdin == <<lines, eof, partial>>

\* ------------------------------------------------------------ scripts
\* What the file can hold: a script that binds x and ends normally, one that
\* calls sys.exit(code), one that calls sys.exit(), one that raises.
\* "missing": there is no file at the path.
Scripts ==
    [kind : {"ok"}, val : 1..MaxVal]
        \cup [kind : {"exit", "exit0", "fault", "missing"}, val : {0}]

NoScript == [kind |-> "none", val |-> 0]

\* context = {}
Empty == << >>

\* The globals run_path returns for a script that binds x = v.
ScriptBindings(v) == [n \in {"x"} |-> v]

\* ------------------------------------------------------- get_console
\* Lines 123-130: context, whether an exception leaves get_console, and the
\* number of print_error calls.  sys.exit() gives e.args == (), so e.args[0]
\* raises IndexError inside the handler and that leaves get_console.
RunOutcomeFaultEscapes(s) ==
    CASE s.kind = "ok" ->
            [escapes |-> FALSE, context |-> ScriptBindings(s.val), reports |-> 0]
      [] s.kind = "exit" ->
            [escapes |-> FALSE, context |-> Empty, reports |-> 1]
      [] OTHER ->
            [escapes |-> TRUE, context |-> Empty, reports |-> 0]

RunOutcome(s) ==
    CASE s.kind = "ok" ->
            [escapes |-> FALSE, context |-> ScriptBindings(s.val), reports |-> 0]
      [] s.kind = "exit" ->
            [escapes |-> FALSE, context |-> Empty, reports |-> 1]
      [] s.kind = "exit0" ->
            [escapes |-> TRUE, context |-> Empty, reports |-> 0]
      [] OTHER ->
            [escapes |-> FALSE, context |-> Empty, reports |-> 1]

\* Lines 123-133: the locals of the new console are the dict this call of
\* get_console made; old is the previous console's locals, which it never reads.
ConsoleLocalsShared(old, out) ==
    [m \in (DOMAIN old) \cup (DOMAIN out.context) |->
        IF m \in DOMAIN out.context THEN out.context[m] ELSE old[m]]

ConsoleLocals(old, out) == out.context

\* An exception leaves interact through the with block: the finally of
\* open_watcher closes the watch manager and the process ends.  The loop of
\* lines 148-156 has no break, so every exit of interact is of this kind and
\* lines 158-161 (the exit message) are reached by no action.
TerminateNoClose(code) ==
    /\ pc' = "exited"
    /\ status' = code
    /\ watcher' = watcher
    /\ closes' = closes
    /\ woken' = FALSE
    /\ fresh' = FALSE

Terminate(code) ==
    /\ pc' = "exited"
    /\ status' = code
    /\ watcher' = "closed"
    /\ closes' = closes + 1
    /\ woken' = FALSE
    /\ fresh' = FALSE

\* ------------------------------------------------------ _clear_events
\* can_read_buf[0] after the FIONREAD ioctl: the low byte of the byte count.
CanRead(n) == (n * EventSize) % ByteRange

\* os.read(fd, can_read) fails with EINVAL when can_read cannot hold an event.
ReadFails(n) == n > 0 /\ CanRead(n) < EventSize

\* Events left on the queue after os.read(fd, can_read).
AfterDrain(n) == n - (CanRead(n) \div EventSize)

\* ------------------------------------------------------------- Init
Init ==
    /\ pc = "start"
    /\ watcher = "none"
    /\ watched = FALSE
    /\ pending = 0
    /\ lines = 0
    /\ eof = FALSE
    /\ partial = FALSE
    /\ file \in Scripts
    /\ loaded = NoScript
    /\ ns = Empty
    /\ fresh = FALSE
    /\ reports = 0
    /\ lastOut = "banner"
    /\ closes = 0
    /\ status = -1
    /\ done = FALSE
    /\ woken = FALSE
    /\ leftover = 0
    /\ console = "none"
    /\ prevNs = Empty
    /\ late = FALSE
    /\ line = "none"
    /\ stale = 0
    /\ opens = 0
    /\ aborted = FALSE
    /\ dirty = FALSE
    /\ unanswered = FALSE
    /\ spurious = FALSE

\* ------------------------------------------------------ the process
\* interact, line 145: open_watcher up to its yield.  add_watch on a path
\* that cannot be watched returns a negative descriptor and raises nothing.
OpenWatcher ==
    /\ pc = "start"
    /\ watcher' = "open"
    /\ watched' = (file.kind # "missing")
    /\ pc' = "run"
    /\ opens' = opens + 1
    /\ UNCHANGED <<pending, stdin, file, loaded, ns, fresh, reports, lastOut,
                   closes, status, done, woken, leftover, console, prevNs,
                   late, line, stale, aborted, dirty, unanswered, spurious>>

\* get_console, line 125: run_path reads the file.
ReadScript ==
    /\ pc = "run"
    /\ loaded' = file
    /\ reports' = 0
    /\ pc' = "exec"
    /\ dirty' = FALSE
    /\ UNCHANGED <<watcher, watched, pending, stdin, file, ns, fresh, lastOut,
                   closes, status, done, woken, leftover, console, prevNs,
                   late, line, stale, opens, aborted, unanswered, spurious>>

\* get_console, lines 125-135: the script ends, the console is built and
\* console.interact reaches watcher_read.
FinishRunResumes ==
    /\ pc = "exec"
    /\ ~RunOutcome(loaded).escapes
    /\ ns' = IF console = "none" THEN ConsoleLocals(ns, RunOutcome(loaded))
                                ELSE ns
    /\ reports' = RunOutcome(loaded).reports
    /\ lastOut' = IF RunOutcome(loaded).reports > 0 THEN "error" ELSE lastOut
    /\ fresh' = (console = "none")
    /\ console' = IF console = "none" THEN "startup" ELSE "reloaded"
    /\ pc' = "wait"
    /\ aborted' = IF console = "none" THEN FALSE ELSE aborted
    /\ UNCHANGED <<watcher, watched, pending, stdin, file, loaded, closes,
                   status, done, woken, leftover, prevNs, late, line, stale,
                   opens, dirty, unanswered, spurious>>

FinishRun ==
    /\ pc = "exec"
    /\ ~RunOutcome(loaded).escapes
    /\ ns' = ConsoleLocals(ns, RunOutcome(loaded))
    /\ reports' = RunOutcome(loaded).reports
    /\ lastOut' = IF RunOutcome(loaded).reports > 0 THEN "error" ELSE lastOut
    /\ fresh' = TRUE
    /\ console' = IF console = "none" THEN "startup" ELSE "reloaded"
    /\ pc' = "wait"
    /\ aborted' = FALSE
    /\ UNCHANGED <<watcher, watched, pending, stdin, file, loaded, closes,
                   status, done, woken, leftover, prevNs, late, line, stale,
                   opens, dirty, unanswered, spurious>>

\* get_console, line 127: the handler itself raises; the exception leaves
\* get_console and interact, the interpreter prints a traceback, status 1.
RunEscapes ==
    /\ pc = "exec"
    /\ RunOutcome(loaded).escapes
    /\ Terminate(1)
    /\ UNCHANGED <<watched, pending, stdin, file, loaded, ns, reports,
                   lastOut, done, leftover, console, prevNs, late, line,
                   stale, opens, aborted, dirty, unanswered, spurious>>

\* watcher_read, lines 96-99: stdin is in rlist, input() returns a line.
ReturnLineReloads ==
    /\ pc = "wait"
    /\ lines > 0
    /\ lines' = lines - 1
    /\ fresh' = FALSE
    /\ woken' = FALSE
    /\ pc' = "reload"
    /\ line' \in {"bind", "fault", "exit"}
    /\ stale' = IF stale > 0 THEN stale - 1 ELSE 0
    /\ UNCHANGED <<watcher, watched, pending, eof, partial, file, loaded, ns,
                   reports, lastOut, closes, status, done, leftover, console,
                   prevNs, late, opens, aborted, dirty, unanswered, spurious>>

ReturnLine ==
    /\ pc = "wait"
    /\ lines > 0
    /\ lines' = lines - 1
    /\ fresh' = FALSE
    /\ woken' = FALSE
    /\ pc' = "eval"
    /\ line' \in {"bind", "fault", "exit"}
    /\ stale' = IF stale > 0 THEN stale - 1 ELSE 0
    /\ UNCHANGED <<watcher, watched, pending, eof, partial, file, loaded, ns,
                   reports, lastOut, closes, status, done, leftover, console,
                   prevNs, late, opens, aborted, dirty, unanswered, spurious>>

\* watcher_read line 99 and raw_input lines 115-117: input() raises EOFError,
\* sys.exit(0); SystemExit leaves console.interact and interact.
EndOfInputBreaks ==
    /\ pc = "wait"
    /\ lines = 0
    /\ eof
    /\ done' = TRUE
    /\ UNCHANGED <<pc, watcher, watched, pending, stdin, file, loaded, ns,
                   fresh, reports, lastOut, closes, status, woken, leftover,
                   console, prevNs, late, line, stale, opens, aborted, dirty,
                   unanswered, spurious>>

EndOfInput ==
    /\ pc = "wait"
    /\ lines = 0
    /\ eof
    /\ done' = TRUE
    /\ Terminate(0)
    /\ UNCHANGED <<watched, pending, stdin, file, loaded, ns, reports,
                   lastOut, leftover, console, prevNs, late, line, stale,
                   opens, aborted, dirty, unanswered, spurious>>

\* watcher_read, lines 101-103, and interact line 151: only the watcher is
\* in rlist; the drain, then ModuleModifiedError reaches the driver loop.
AbortBeforeDrain ==
    /\ pc = "wait"
    /\ lines = 0 /\ ~eof
    /\ pending > 0
    /\ woken' = FALSE
    /\ fresh' = FALSE
    /\ prevNs' = ns
    /\ pc' = "reload"
    /\ late' = FALSE
    /\ line' = "none"
    /\ aborted' = TRUE
    /\ unanswered' = (pending - AfterDrain(pending) >= 1)
    /\ UNCHANGED <<watcher, watched, pending, leftover, stdin, file, loaded,
                   ns, reports, lastOut, closes, status, done, console, stale,
                   opens, dirty, spurious>>

AbortOnChange ==
    /\ pc = "wait"
    /\ lines = 0 /\ ~eof
    /\ pending > 0
    /\ ~ReadFails(pending)
    /\ pending' = AfterDrain(pending)
    /\ leftover' = AfterDrain(pending)
    /\ woken' = FALSE
    /\ fresh' = FALSE
    /\ prevNs' = ns
    /\ pc' = "reload"
    /\ late' = FALSE
    /\ line' = "none"
    /\ aborted' = TRUE
    /\ unanswered' = (pending - AfterDrain(pending) >= 1)
    /\ UNCHANGED <<watcher, watched, stdin, file, loaded, ns, reports,
                   lastOut, closes, status, done, console, stale, opens,
                   dirty, spurious>>

\* _clear_events, line 79: os.read raises OSError; nothing catches it.
DrainFault ==
    /\ pc = "wait"
    /\ lines = 0 /\ ~eof
    /\ pending > 0
    /\ ReadFails(pending)
    /\ Terminate(1)
    /\ UNCHANGED <<watched, pending, stdin, file, loaded, ns, reports,
                   lastOut, done, leftover, console, prevNs, late, line,
                   stale, opens, aborted, dirty, unanswered, spurious>>

\* interact, lines 152-156: the notice, then get_console again.
Reload ==
    /\ pc = "reload"
    /\ lastOut' = "reloading"
    /\ pc' = "run"
    /\ unanswered' = FALSE
    /\ spurious' = (spurious \/ ~unanswered)
    /\ UNCHANGED <<watcher, watched, pending, stdin, file, loaded, ns, fresh,
                   reports, closes, status, done, woken, leftover, console,
                   prevNs, late, line, stale, opens, aborted, dirty>>

\* InteractiveConsole.push: the line binds a name in the console's locals.
EvalBind ==
    /\ pc = "eval"
    /\ \E n \in {"x", "y"} :
          ns' = [m \in (DOMAIN ns) \cup {n} |-> IF m = n THEN 0 ELSE ns[m]]
    /\ pc' = "wait"
    /\ line = "bind" /\ line' = line
    /\ UNCHANGED <<watcher, watched, pending, stdin, file, loaded, fresh,
                   reports, lastOut, closes, status, done, woken, leftover,
                   console, prevNs, late, stale, opens, aborted, dirty,
                   unanswered, spurious>>

\* InteractiveConsole.push: the line raises; runcode shows the traceback.
EvalFaultEscapes ==
    /\ pc = "eval"
    /\ line = "fault"
    /\ Terminate(1)
    /\ UNCHANGED <<watched, pending, stdin, file, loaded, ns, reports,
                   lastOut, done, leftover, console, prevNs, late, line,
                   stale, opens, aborted, dirty, unanswered, spurious>>

EvalFault ==
    /\ pc = "eval"
    /\ pc' = "wait"
    /\ line = "fault" /\ line' = line
    /\ UNCHANGED <<watcher, watched, pending, stdin, file, loaded, ns, fresh,
                   reports, lastOut, closes, status, done, woken, leftover,
                   console, prevNs, late, stale, opens, aborted, dirty,
                   unanswered, spurious>>

\* InteractiveConsole.push: the line raises SystemExit, which runcode
\* re-raises; it leaves console.interact and interact.
EvalExit ==
    /\ pc = "eval"
    /\ Terminate(2)
    /\ line = "exit" /\ line' = line
    /\ UNCHANGED <<watched, pending, stdin, file, loaded, ns, reports,
                   lastOut, done, leftover, console, prevNs, late, stale,
                   opens, aborted, dirty, unanswered, spurious>>

\* --------------------------------------------------- the environment
\* The file is saved with content s; a watched file queues one event.
Modify ==
    /\ watcher = "open"
    /\ \E s \in Scripts \ {[kind |-> "missing", val |-> 0]} : file' = s
    /\ IF watched
          THEN /\ pending < MaxPending
               /\ pending' = pending + 1
          ELSE pending' = pending
    /\ woken' = (woken \/ (watched /\ pc = "wait" /\ pending = 0
                              /\ lines = 0 /\ ~eof))
    /\ late' = (late \/ (watched /\ pc \in {"reload", "run", "exec", "eval"}))
    /\ dirty' = TRUE
    /\ UNCHANGED <<pc, watcher, watched, stdin, loaded, ns, fresh, reports,
                   lastOut, closes, status, done, leftover, console, prevNs,
                   line, stale, opens, aborted, unanswered, spurious>>

\* The user types characters, no line terminator.
TypeChars ==
    /\ status = -1
    /\ ~eof /\ ~partial
    /\ partial' = TRUE
    /\ UNCHANGED <<pc, watcher, watched, pending, lines, eof, file, loaded,
                   ns, fresh, reports, lastOut, closes, status, done, woken,
                   leftover, console, prevNs, late, line, stale, opens,
                   aborted, dirty, unanswered, spurious>>

\* The user ends a line.
TypeLine ==
    /\ status = -1
    /\ ~eof
    /\ lines < MaxLines
    /\ lines' = lines + 1
    /\ partial' = FALSE
    /\ stale' = IF pc = "reload" \/ (pc \in {"run", "exec"} /\ console # "none")
                 THEN stale + 1 ELSE stale
    /\ UNCHANGED <<pc, watcher, watched, pending, eof, file, loaded, ns,
                   fresh, reports, lastOut, closes, status, done, woken,
                   leftover, console, prevNs, late, line, opens, aborted,
                   dirty, unanswered, spurious>>

\* The user signals end-of-input on an empty line.
TypeEOF ==
    /\ status = -1
    /\ ~eof /\ ~partial
    /\ eof' = TRUE
    /\ UNCHANGED <<pc, watcher, watched, pending, lines, partial, file,
                   loaded, ns, fresh, reports, lastOut, closes, status, done,
                   woken, leftover, console, prevNs, late, line, stale,
                   opens, aborted, dirty, unanswered, spurious>>

Next ==
    \/ OpenWatcher
    \/ ReadScript
    \/ FinishRun
    \/ RunEscapes
    \/ ReturnLine
    \/ EndOfInput
    \/ AbortOnChange
    \/ DrainFault
    \/ Reload
    \/ EvalBind
    \/ EvalFault
    \/ EvalExit
    \/ Modify
    \/ TypeChars
    \/ TypeLine
    \/ TypeEOF

Spec == Init /\ [][Next]_vars

\* The steps of the process.  It is one thread that runs whenever it can: the
\* script and the evaluation of a line end, select() returns when a
\* descriptor is ready.  The user may stop saving and typing at any time.
Process ==
    \/ OpenWatcher
    \/ ReadScript
    \/ FinishRun
    \/ RunEscapes
    \/ ReturnLine
    \/ EndOfInput
    \/ AbortOnChange
    \/ DrainFault
    \/ Reload
    \/ EvalBind
    \/ EvalFault
    \/ EvalExit

\* A select() that finds only the watcher ready again and again returns it:
\* the abort is not postponed for ever by lines typed just after the prompt.
LiveSpec == Spec /\ WF_vars(Process) /\ SF_vars(AbortOnChange)

\* ------------------------------------------------------------ claims
\* The wait of watcher_read ends on a step that changes pc from "wait".
WaitEnds == pc = "wait" /\ pc' # "wait"

\* C1: when the change source and the input source are both ready at the
\* same wait, the wait ends in the abort (after the drain) and no pending
\* line is consumed or returned for evaluation.
C1_ChangeTakesPriority ==
    [][(WaitEnds /\ pending > 0 /\ lines > 0)
          => (pc' = "reload" /\ lines' = lines)]_vars

\* C2: the N >= 1 events queued between two waits cause exactly one reload:
\* after the reload's drain none of them is left on the queue to abort the
\* wait of the new console.
C2_OneReloadPerBurst == leftover = 0

\* C3: the drain consumes every pending event, whatever their number, and
\* does not fail.
C3_DrainConsumesAll ==
    [][(WaitEnds /\ lines = 0 /\ ~eof /\ pending > 0)
          => (pending' = 0 /\ status' = -1)]_vars

\* C4: however the script ends, get_console returns a console: nothing the
\* script raised leaves get_console.
C4_NothingEscapes ==
    [][(pc = "exec" /\ pc' # "exec") => (pc' = "wait" /\ status' = -1)]_vars

\* C5: when the run of the script ends in an uncaught fault, at startup or
\* on a reload, the next console starts, its namespace is empty and the
\* failure was reported exactly once for that run.
C5_FaultRecovered ==
    [][(pc = "exec" /\ loaded.kind \in {"fault", "missing"} /\ pc' # "exec")
          => (pc' = "wait" /\ fresh' /\ ns' = Empty /\ reports' = 1
                /\ lastOut' = "error" /\ status' = -1)]_vars

\* C5 witness: a console built by a reload whose run faulted, after a console
\* that held bindings.
C5_Witness ==
    /\ pc = "wait" /\ fresh /\ console = "reloaded"
    /\ loaded.kind = "fault"
    /\ prevNs # Empty
    /\ ns = Empty

\* C6: once end-of-input was observed the process is over: the watcher was
\* closed exactly once, the exit status is 0, and there is no later reload,
\* run of the script or console.
C6_EndOfInputIsFinal ==
    done => (pc = "exited" /\ status = 0 /\ watcher = "closed" /\ closes = 1)

\* C6 witness: end-of-input observed while change events were pending.
C6_Witness == done /\ pending > 0 /\ pc = "exited"

\* C7: after end-of-input interact closes the watcher and writes the exit
\* message before the process ends with status 0.
C7_ExitMessage ==
    done => (watcher = "closed" /\ status = 0 /\ lastOut = "exitmsg")

\* C8: when the path cannot be watched at startup the process ends with a
\* non-zero status; the script is not run and no console is built.
C8_MissingPathFatal ==
    (watcher # "none" /\ ~watched)
        => (pc = "exited" /\ status > 0 /\ loaded = NoScript
              /\ console = "none")

C10_BlockedWaitAborts ==
    [][(WaitEnds /\ woken) => pc' = "reload"]_vars

\* C11: change events that arrived while the script was running or a line
\* was evaluated are still queued when the process waits again, and that
\* next wait observes them, drains them all and ends in the abort that
\* starts a reload.
C11_LateEventsReload ==
    [][/\ (pc \in {"run", "exec", "eval", "reload"} => pending' >= pending)
       /\ (WaitEnds /\ late) => (pc' = "reload" /\ pending' = 0)]_vars

\* C12: the watcher interact opened is closed, once, whenever the process
\* has ended, whatever ended it (end-of-input, a fault leaving get_console,
\* the drain or the read, a termination request of an evaluated line), and
\* it is open as long as the process runs inside the with block.
C12_WatcherClosedOnExit ==
    /\ pc = "exited" => (watcher = "closed" /\ closes = 1)
    /\ pc \in {"run", "exec", "wait", "eval", "reload"}
          => (watcher = "open" /\ closes = 0)

\* C12 witness: the process ended by the fault of a drain, in a console
\* built by a reload, and the watcher is closed.
C12_Witness ==
    /\ pc = "exited" /\ status = 1 /\ ReadFails(pending)
    /\ console = "reloaded" /\ ~RunOutcome(loaded).escapes
    /\ watcher = "closed"

C14_ReloadInputDiscarded ==
    [][(pc = "wait" /\ pc' = "eval") => stale = 0]_vars

\* C15: ModuleModifiedError reaches the driver loop only from a console
\* waiting in watcher_read, after the drain has read events from the queue,
\* and it cancels that read only: no line is consumed, the namespace is
\* untouched.  It never arises while the script runs or a line is evaluated.
C15_AbortOnlyFromWait ==
    [][(pc # "reload" /\ pc' = "reload")
          => (pc = "wait" /\ pending > 0 /\ pending' < pending
                /\ lines' = lines /\ ns' = ns /\ status' = -1)]_vars

\* C15 witness: the abort was raised, after a drain that emptied the queue,
\* from the wait of a console that had evaluated lines.
C15_Witness ==
    /\ pc = "reload" /\ pending = 0 /\ leftover = 0
    /\ DOMAIN prevNs = {"x", "y"} /\ prevNs = ns

\* C16: at most one watch manager is ever made and at most one is open; the
\* console that reads or evaluates is never one that was aborted: after an
\* abort the driver loop reads again only through a newly built console,
\* and an aborted console exists only until it is replaced or the process
\* ends.
C16_OneWatcherOneLiveConsole ==
    /\ opens <= 1
    /\ opens - closes \in {0, 1}
    /\ (watcher = "open") = (opens - closes = 1)
    /\ pc \in {"wait", "eval"} => (console # "none" /\ ~aborted)
    /\ aborted => pc \in {"reload", "run", "exec", "exited"}

\* C16 witness: a console built by a reload evaluates a line after the
\* console before it was aborted; the one watcher is open.
C16_Witness ==
    /\ pc = "eval" /\ console = "reloaded" /\ ~aborted
    /\ prevNs # Empty
    /\ opens = 1 /\ watcher = "open"

\* C17: after an abort the driver loop writes the notice, then runs the
\* script again, then builds a new console and reads through it; whatever
\* the run did, the process does not end between the abort and that read.
C17_AbortThenReloadInOrder ==
    [][/\ (pc = "reload" /\ pc' # pc)
            => (pc' = "run" /\ lastOut' = "reloading")
       /\ (aborted /\ pc = "run" /\ pc' # pc) => pc' = "exec"
       /\ (aborted /\ pc = "exec" /\ pc' # pc)
            => (pc' = "wait" /\ ~aborted' /\ fresh'
                  /\ status' = -1)]_vars

\* C18: whenever the watched file was saved since the script was last read,
\* a run that reads the file after that save follows, unless the process
\* ends first; so once the saves stop, the console is eventually one built
\* from the latest version.
C18_ConvergesToLatest ==
    (dirty /\ watched) ~> (~dirty \/ pc = "exited")

\* C19: no spurious reload.  Every re-run of the script answers a drain
\* that read at least one delivered event, so the reloads never outnumber
\* the events delivered; the driver prints the notice only behind such a
\* drain, and a script is run again only by a console that was aborted:
\* returning or evaluating a line never starts a re-run.
C19_NoSpuriousReload ==
    /\ ~spurious
    /\ pc = "reload" => unanswered
    /\ (pc \in {"run", "exec"} /\ console # "none") => aborted

\* A reloaded console has evaluated a line and waits again, no event queued.
C19_Witness ==
    /\ pc = "wait" /\ console = "reloaded" /\ line = "bind"
    /\ pending = 0 /\ lastOut = "reloading" /\ ~spurious /\ ~unanswered

====
